---- MODULE Spec2Model ----
(***************************************************************************)
(* A model of rich_logger.RichTablePrinter (src/rich_logger/               *)
(* table_printer.py): the rule matching, the column registry and its       *)
(* reordering, the row index, the goal tracker and log_metrics.            *)
(*                                                                         *)
(* Python strings are TLA+ strings (Len, \o, SubSeq, Head and Tail work on *)
(* them).  An Optional[x] is a sequence: << >> is None and <<v>> is v.     *)
(* An ordered dict is a sequence of entries in insertion order.            *)
(***************************************************************************)
EXTENDS Integers, Sequences, FiniteSets, TLC

\* The number of log_metrics calls of a run.
MaxCalls == 5

----------------------------------------------------------------------------
(* Values logged in a record: an int, a float (held in tenths, so that     *)
(* 3.5 is FloatV(35)) or a str.                                            *)

IntV(n) == [t |-> "int", n |-> n, s |-> ""]
FloatV(tenths) == [t |-> "float", n |-> tenths, s |-> ""]
StrV(s) == [t |-> "str", n |-> 0, s |-> s]

\* isinstance(value, Number) for the values above.
IsNumber(value) == value.t \in {"int", "float"}

\* The value in tenths, the scale on which an int and a float compare.
Tenths(value) == IF value.t = "int" THEN 10 * value.n ELSE value.n

----------------------------------------------------------------------------
(* str(int) and str.format for the format specs the rules use.             *)

Digit(d) == SubSeq("0123456789", d + 1, d + 1)

RECURSIVE NatStr(_)
NatStr(n) == IF n < 10 THEN Digit(n) ELSE NatStr(n \div 10) \o Digit(n % 10)

IntStr(n) == IF n < 0 THEN "-" \o NatStr(0 - n) ELSE NatStr(n)

RECURSIVE Zeros(_)
Zeros(k) == IF k <= 0 THEN "" ELSE "0" \o Zeros(k - 1)

\* A number of tenths printed with `decimals` >= 1 digits after the point.
FixedStr(tenths, decimals) ==
    LET a == IF tenths < 0 THEN 0 - tenths ELSE tenths
    IN  (IF tenths < 0 THEN "-" ELSE "")
            \o NatStr(a \div 10) \o "." \o Digit(a % 10) \o Zeros(decimals - 1)

\* str(value): "4" for 4, "3.5" for 3.5, the string itself for a str.
PyStr(value) ==
    CASE value.t = "int" -> IntStr(value.n)
      [] value.t = "float" -> FixedStr(value.n, 1)
      [] OTHER -> value.s

\* The format strings of the rules: "{}" and "{:.Nf}" for one digit N >= 1.
IsPlainFormat(fmt) == fmt = "{}"
IsFixedFormat(fmt) ==
    /\ Len(fmt) = 6
    /\ SubSeq(fmt, 1, 3) = "{:."
    /\ SubSeq(fmt, 5, 6) = "f}"
    /\ \E d \in 1..9 : SubSeq(fmt, 4, 4) = Digit(d)
FixedDecimals(fmt) == CHOOSE d \in 1..9 : SubSeq(fmt, 4, 4) = Digit(d)

\* fmt.format(value): [ok, text]; a float format applied to a str raises
\* ValueError (ok = FALSE).
str_format(fmt, value) ==
    IF IsPlainFormat(fmt) THEN [ok |-> TRUE, text |-> PyStr(value)]
    ELSE IF IsFixedFormat(fmt) /\ IsNumber(value)
         THEN [ok |-> TRUE, text |-> FixedStr(Tenths(value), FixedDecimals(fmt))]
         ELSE [ok |-> FALSE, text |-> ""]

----------------------------------------------------------------------------
(* re.match, re.compile(p).groups, re.findall of a group reference and     *)
(* re.sub, for the patterns the rule sets use: literal characters, the     *)
(* greedy dot-star and the dot-star in a capturing group.                  *)

StartsWith(s, prefix) ==
    Len(s) >= Len(prefix) /\ SubSeq(s, 1, Len(prefix)) = prefix

Drop(s, k) == SubSeq(s, k + 1, Len(s))

\* The match of pattern p against s starting at s's first character, as the
\* backtracking matcher finds it (a star takes the longest run that lets
\* the rest match): [ok, len (characters consumed), groups].
RECURSIVE re_match_at(_, _)
StarMatch(rest, s, capture) ==
    LET ks == {k \in 0..Len(s) : re_match_at(rest, Drop(s, k)).ok}
    IN  IF ks = {} THEN [ok |-> FALSE, len |-> 0, groups |-> << >>]
        ELSE LET k == CHOOSE x \in ks : \A y \in ks : y <= x
                 r == re_match_at(rest, Drop(s, k))
             IN  [ok |-> TRUE, len |-> k + r.len,
                  groups |-> (IF capture THEN <<SubSeq(s, 1, k)>> ELSE << >>)
                                \o r.groups]
re_match_at(p, s) ==
    IF p = "" THEN [ok |-> TRUE, len |-> 0, groups |-> << >>]
    ELSE IF StartsWith(p, "(.*)") THEN StarMatch(Drop(p, 4), s, TRUE)
    ELSE IF StartsWith(p, ".*") THEN StarMatch(Drop(p, 2), s, FALSE)
    ELSE IF s # "" /\ Head(s) = Head(p)
         THEN LET r == re_match_at(Tail(p), Tail(s))
              IN  [ok |-> r.ok, len |-> 1 + r.len, groups |-> r.groups]
         ELSE [ok |-> FALSE, len |-> 0, groups |-> << >>]

\* re.match(matcher, name): anchored at the start, not at the end.
re_match(matcher, name) == re_match_at(matcher, name).ok

\* re.compile(matcher).groups
RECURSIVE re_groups(_)
re_groups(p) ==
    IF p = "" THEN 0
    ELSE (IF Head(p) = "(" THEN 1 ELSE 0) + re_groups(Tail(p))

IsDigit(c) == \E d \in 0..9 : c = Digit(d)

\* re.findall of a backslash followed by digits, in template, is not empty.
RECURSIVE has_backreference(_)
has_backreference(t) ==
    IF Len(t) < 2 THEN FALSE
    ELSE \/ (Head(t) = "\\" /\ IsDigit(Head(Tail(t))))
         \/ has_backreference(Tail(t))

\* The template with its \N references (N one digit) replaced by the groups;
\* ok = FALSE when it names a group the pattern does not have (re.error).
RECURSIVE expand_template(_, _)
expand_template(t, groups) ==
    IF t = "" THEN [ok |-> TRUE, text |-> ""]
    ELSE IF Len(t) >= 2 /\ Head(t) = "\\" /\ IsDigit(Head(Tail(t)))
    THEN LET g == CHOOSE d \in 0..9 : Head(Tail(t)) = Digit(d)
             r == expand_template(Drop(t, 2), groups)
         IN  IF g \in 1..Len(groups) /\ r.ok
             THEN [ok |-> TRUE, text |-> groups[g] \o r.text]
             ELSE [ok |-> FALSE, text |-> ""]
    ELSE LET r == expand_template(Tail(t), groups)
         IN  [ok |-> r.ok, text |-> Head(t) \o r.text]

\* re.sub(matcher, template, name): every non-overlapping match, found
\* from the left, is replaced by the expanded template.  With these patterns
\* a match is empty only at the end of the string, where it is also taken
\* right after a non-empty match (Python >= 3.7).
RECURSIVE re_sub_from(_, _, _)
re_sub_from(matcher, template, s) ==
    LET m == re_match_at(matcher, s)
        e == expand_template(template, m.groups)
    IN  IF m.ok
        THEN IF ~e.ok THEN [ok |-> FALSE, text |-> ""]
             ELSE IF m.len = 0
             THEN IF s = "" THEN [ok |-> TRUE, text |-> e.text]
                  ELSE LET r == re_sub_from(matcher, template, Tail(s))
                       IN  [ok |-> r.ok, text |-> e.text \o Head(s) \o r.text]
             ELSE LET r == re_sub_from(matcher, template, Drop(s, m.len))
                  IN  [ok |-> r.ok, text |-> e.text \o r.text]
        ELSE IF s = "" THEN [ok |-> TRUE, text |-> ""]
        ELSE LET r == re_sub_from(matcher, template, Tail(s))
             IN  [ok |-> r.ok, text |-> Head(s) \o r.text]

re_sub(matcher, template, name) == re_sub_from(matcher, template, name)

----------------------------------------------------------------------------
(* Goal, Rule and the rule set.                                            *)

lower_is_better == "lower_is_better"
higher_is_better == "higher_is_better"

\* Rule(name, goal, goal_wait, format): every attribute is Optional.
Rule(name, goal, goal_wait, format) ==
    [kind |-> "Rule", name |-> name, goal |-> goal,
     goal_wait |-> goal_wait, format |-> format]

\* The rule values True (pass-through) and False (hidden).
RuleTrue == [kind |-> "True", name |-> << >>, goal |-> << >>,
             goal_wait |-> << >>, format |-> << >>]
RuleFalse == [kind |-> "False", name |-> << >>, goal |-> << >>,
              goal_wait |-> << >>, format |-> << >>]

\* One entry of the fields dict: the pattern and its rule.
Field(pattern, rule) == [pattern |-> pattern, rule |-> rule]

\* key in fields
HasPattern(fields, key) == \E i \in 1..Len(fields) : fields[i].pattern = key

\* RichTablePrinter.__init__: the key, when it is no entry of fields, is
\* inserted first with an empty descriptor; validate_rules keeps the order.
init_rules(fields, key) ==
    IF Len(key) > 0 /\ ~HasPattern(fields, key[1])
    THEN <<Field(key[1], Rule(<< >>, << >>, << >>, << >>))>> \o fields
    ELSE fields

\* get_last_matching_index(matchers, name): <<i>> for the index (from 0) of
\* the last pattern that matches, << >> for the ValueError.
RECURSIVE last_matching_index_from(_, _, _)
last_matching_index_from(matchers, i, name) ==
    IF i = 0 THEN << >>
    ELSE IF re_match(matchers[i].pattern, name) THEN <<i - 1>>
    ELSE last_matching_index_from(matchers, i - 1, name)

get_last_matching_index(matchers, name) ==
    last_matching_index_from(matchers, Len(matchers), name)

\* The scan that ends at the first matching rule: a descriptor that leaves
\* the attribute unset gives the default.
RECURSIVE last_value_first_match(_, _, _, _, _)
last_value_first_match(matchers, i, name, field, default) ==
    IF i = 0 THEN [matcher |-> << >>, hidden |-> FALSE, value |-> default]
    ELSE IF ~re_match(matchers[i].pattern, name)
    THEN last_value_first_match(matchers, i - 1, name, field, default)
    ELSE IF matchers[i].rule.kind = "False"
    THEN [matcher |-> <<matchers[i].pattern>>, hidden |-> TRUE, value |-> << >>]
    ELSE IF matchers[i].rule.kind = "Rule" /\ Len(matchers[i].rule[field]) > 0
    THEN [matcher |-> <<matchers[i].pattern>>, hidden |-> FALSE,
          value |-> matchers[i].rule[field]]
    ELSE [matcher |-> <<matchers[i].pattern>>, hidden |-> FALSE, value |-> default]

\* get_last_matching_value(matchers, name, field, default): the pair
\* (matcher, value) as [matcher, hidden, value]; hidden says that the value
\* is False, otherwise value is the Optional default or attribute.
RECURSIVE last_matching_value_from(_, _, _, _, _)
last_matching_value_from(matchers, i, name, field, default) ==
    IF i = 0 THEN [matcher |-> << >>, hidden |-> FALSE, value |-> default]
    ELSE LET matcher == matchers[i].pattern
             rule == matchers[i].rule
         IN  IF re_match(matcher, name)
             THEN IF rule.kind = "False"
                  THEN [matcher |-> <<matcher>>, hidden |-> TRUE, value |-> << >>]
                  ELSE IF rule.kind = "True"
                  THEN [matcher |-> <<matcher>>, hidden |-> FALSE, value |-> default]
                  ELSE IF Len(rule[field]) > 0
                  THEN [matcher |-> <<matcher>>, hidden |-> FALSE,
                        value |-> rule[field]]
                  ELSE last_matching_value_from(matchers, i - 1, name, field, default)
             ELSE last_matching_value_from(matchers, i - 1, name, field, default)

get_last_matching_value(matchers, name, field, default) ==
    last_matching_value_from(matchers, Len(matchers), name, field, default)

----------------------------------------------------------------------------
(* The rich Table as log_metrics uses it: the columns, each with its       *)
(* header and its _cells, and the number of rows.                          *)

NewTable == [columns |-> << >>, rows |-> 0]

\* Table.add_column(header) followed by the assignment of the new column's
\* _cells: as many empty cells as the first column holds (the new column
\* itself, still empty, when it is the first).
add_column(table, header) ==
    LET added == Append(table.columns, [header |-> header, cells |-> << >>])
        n == IF Len(added) > 0 THEN Len(added[1].cells) ELSE 0
    IN  [table EXCEPT !.columns =
            [added EXCEPT ![Len(added)].cells = [i \in 1..n |-> ""]]]

\* Table.add_row(): an empty cell at the end of every column, one more row.
add_row(table) ==
    [columns |-> [c \in 1..Len(table.columns) |->
                    [table.columns[c] EXCEPT !.cells = Append(@, "")]],
     rows |-> table.rows + 1]

----------------------------------------------------------------------------
(* The ordered dicts name_to_column_idx (entries [name, idx]) and          *)
(* key_to_row_idx (entries [key, idx]).                                    *)

HasName(d, name) == \E i \in 1..Len(d) : d[i].name = name
IdxOf(d, name) == d[CHOOSE i \in 1..Len(d) : d[i].name = name].idx

RECURSIVE MaxIdx(_)
MaxIdx(d) ==
    IF Len(d) = 1 THEN d[1].idx
    ELSE LET m == MaxIdx(Tail(d)) IN IF d[1].idx > m THEN d[1].idx ELSE m

\* max(d.values()) + 1 if len(d) else 0
NextIdx(d) == IF Len(d) > 0 THEN MaxIdx(d) + 1 ELSE 0

HasKey(d, k) == \E i \in 1..Len(d) : d[i].key = k
RowOf(d, k) == d[CHOOSE i \in 1..Len(d) : d[i].key = k].idx

\* A record (info) is an ordered dict too: entries [name, value].
Item(name, value) == [name |-> name, value |-> value]
InInfo(info, name) == \E i \in 1..Len(info) : info[i].name = name
InfoValue(info, name) ==
    info[CHOOSE i \in 1..Len(info) : info[i].name = name].value

----------------------------------------------------------------------------
(* RichTablePrinter.log_metrics, step by step.  P is the printer: its key, *)
(* rules, key_to_row_idx, name_to_column_idx, best, logger_table and       *)
(* whether its live display is started.  The call is a frame F: the        *)
(* printer so far, the exception raised (err, "" for none) with the field  *)
(* it was raised for, the row idx once chosen (-1 before), and marks, one  *)
(* per item of the record: "" for an item the second loop did not reach,   *)
(* "skip" for a field without a column, "format" for a value its format    *)
(* does not apply to, "plain" for a field without a                        *)
(* goal, and for a goal field what the goal branch did.  A step leaves a   *)
(* frame that holds an exception as it is.                                 *)

Frame(P, err, field, idx, marks) ==
    [P |-> P, err |-> err, field |-> field, idx |-> idx, marks |-> marks]

\* ensure_live
ensure_live(P) ==
    IF P.logger_table = << >>
    THEN [P EXCEPT !.logger_table = <<NewTable>>, !.started = TRUE]
    ELSE P

\* The column name that falls back to the field name when only one of the
\* matcher and the name has groups.
column_name_fallback(matcher, template, name) ==
    IF Len(matcher) > 0 /\ re_groups(matcher[1]) > 0 /\ has_backreference(template)
    THEN re_sub(matcher[1], template, name)
    ELSE IF Len(matcher) > 0 /\ (re_groups(matcher[1]) > 0 \/ has_backreference(template))
    THEN [ok |-> TRUE, text |-> name]
    ELSE [ok |-> TRUE, text |-> template]

\* The column name of a new visible field: the resolved name, with the
\* groups of the matcher substituted when the matcher has groups and the
\* name refers to one.
column_name(matcher, template, name) ==
    IF Len(matcher) > 0 /\ re_groups(matcher[1]) > 0 /\ has_backreference(template)
    THEN re_sub(matcher[1], template, name)
    ELSE [ok |-> TRUE, text |-> template]

\* The new column and its idx; cn is the column name, or the re.error.
register_visible(F, name, cn) ==
    IF ~cn.ok THEN [F EXCEPT !.err = "re.error", !.field = name]
    ELSE [F EXCEPT
            !.P.logger_table = <<add_column(F.P.logger_table[1], cn.text)>>,
            !.P.name_to_column_idx =
                Append(@, [name |-> name, idx |-> NextIdx(F.P.name_to_column_idx)])]

\* A name not yet registered; r is its resolved "name".
register_name(F, name, r) ==
    IF r.hidden
    THEN [F EXCEPT !.P.name_to_column_idx = Append(@, [name |-> name, idx |-> -1])]
    ELSE register_visible(F, name, column_name(r.matcher, r.value[1], name))

register_item(F, name) ==
    IF HasName(F.P.name_to_column_idx, name) THEN F
    ELSE register_name(F, name,
            get_last_matching_value(F.P.rules, name, "name", <<name>>))

\* The first loop over info.items().
RECURSIVE register_columns_from(_, _, _)
register_columns_from(F, info, i) ==
    IF i > Len(info) \/ F.err # "" THEN F
    ELSE register_columns_from(register_item(F, info[i].name), info, i + 1)

register_columns(F, info) == register_columns_from(F, info, 1)

\* get_name_index: the index of the last matching rule, or the number of
\* registered names when no rule matches.
name_index(i, d) == IF Len(i) > 0 THEN i[1] ELSE Len(d)
get_name_index(P, name) ==
    name_index(get_last_matching_index(P.rules, name), P.name_to_column_idx)

\* sorted(entries, key): stable, so an entry is preceded by the entries of
\* a smaller key and by the earlier entries of the same key.
sort_rank(s, i) ==
    Cardinality({j \in 1..Len(s) :
                    \/ s[j].k < s[i].k
                    \/ (s[j].k = s[i].k /\ j < i)})
stable_sort(s) ==
    [r \in 1..Len(s) |-> s[CHOOSE i \in 1..Len(s) : sort_rank(s, i) = r - 1]]

\* The entries of name_to_column_idx with their sort keys.
keyed_names(P) ==
    [i \in 1..Len(P.name_to_column_idx) |->
        [name |-> P.name_to_column_idx[i].name,
         idx |-> P.name_to_column_idx[i].idx,
         k |-> get_name_index(P, P.name_to_column_idx[i].name)]]

sorted_names(P) == stable_sort(keyed_names(P))

\* The loop that rebuilds columns and name_to_column_idx in sorted order;
\* table.columns[idx] raises IndexError for an idx the table does not have.
RECURSIVE reorder_from(_, _, _, _, _)
reorder_from(table, names, i, columns, new_d) ==
    IF i > Len(names) THEN [ok |-> TRUE, columns |-> columns, d |-> new_d]
    ELSE IF names[i].idx < 0
    THEN reorder_from(table, names, i + 1, columns,
            Append(new_d, [name |-> names[i].name, idx |-> -1]))
    ELSE IF names[i].idx + 1 > Len(table.columns)
    THEN [ok |-> FALSE, columns |-> columns, d |-> new_d]
    ELSE reorder_from(table, names, i + 1,
            Append(columns, table.columns[names[i].idx + 1]),
            Append(new_d, [name |-> names[i].name, idx |-> NextIdx(new_d)]))

\* The reordering that assigns name_to_column_idx and leaves the columns of
\* the table where they were.
reordered_indices_only(F, r) ==
    IF r.ok
    THEN [F EXCEPT !.P.name_to_column_idx = r.d]
    ELSE [F EXCEPT !.err = "IndexError"]

\* The two assignments that end the reordering.
reordered(F, r) ==
    IF r.ok
    THEN [F EXCEPT !.P.logger_table[1].columns = r.columns,
                   !.P.name_to_column_idx = r.d]
    ELSE [F EXCEPT !.err = "IndexError"]

reorder(F) ==
    IF F.err # "" THEN F
    ELSE reordered(F, reorder_from(F.P.logger_table[1], sorted_names(F.P),
                                   1, << >>, << >>))

\* The else branch that, without a key, takes the last row of a table that
\* has rows.
new_row_reuse(F, info) ==
    LET idx == F.P.logger_table[1].rows
        G == [F EXCEPT !.P.logger_table[1] = add_row(@), !.idx = idx]
    IN  IF Len(F.P.key) = 0
        THEN IF idx > 0 THEN [F EXCEPT !.idx = idx - 1] ELSE G
        ELSE IF ~InInfo(info, F.P.key[1])
        THEN [G EXCEPT !.err = "KeyError", !.field = F.P.key[1]]
        ELSE [G EXCEPT !.P.key_to_row_idx =
                Append(@, [key |-> InfoValue(info, F.P.key[1]), idx |-> idx])]

\* The else branch of the choice of the row: add_row, then the mapping of
\* the record's key value; info[self.key] raises KeyError when the record
\* lacks the key.
new_row(F, info) ==
    LET idx == F.P.logger_table[1].rows
        G == [F EXCEPT !.P.logger_table[1] = add_row(@), !.idx = idx]
    IN  IF Len(F.P.key) = 0 THEN G
        ELSE IF ~InInfo(info, F.P.key[1])
        THEN [G EXCEPT !.err = "KeyError", !.field = F.P.key[1]]
        ELSE [G EXCEPT !.P.key_to_row_idx =
                Append(@, [key |-> InfoValue(info, F.P.key[1]), idx |-> idx])]

\* choose_row without the lookup of the key value: always the else branch.
choose_row_new(F, info) == new_row(F, info)

\* choose_row with the first entry of key_to_row_idx, not the last, for a
\* record without the key.
choose_row_first(F, info) ==
    IF /\ Len(F.P.key) > 0
       /\ InInfo(info, F.P.key[1])
       /\ HasKey(F.P.key_to_row_idx, InfoValue(info, F.P.key[1]))
    THEN [F EXCEPT !.idx = RowOf(F.P.key_to_row_idx, InfoValue(info, F.P.key[1]))]
    ELSE IF /\ Len(F.P.key) > 0
            /\ ~InInfo(info, F.P.key[1])
            /\ Len(F.P.key_to_row_idx) > 0
    THEN [F EXCEPT !.idx = F.P.key_to_row_idx[1].idx]
    ELSE new_row(F, info)

\* The choice of the row: the row of the record's key value, the row of
\* the last entry of key_to_row_idx for a record without the key, a new
\* row otherwise.
choose_row(F, info) ==
    IF /\ Len(F.P.key) > 0
       /\ InInfo(info, F.P.key[1])
       /\ HasKey(F.P.key_to_row_idx, InfoValue(info, F.P.key[1]))
    THEN [F EXCEPT !.idx = RowOf(F.P.key_to_row_idx, InfoValue(info, F.P.key[1]))]
    ELSE IF /\ Len(F.P.key) > 0
            /\ ~InInfo(info, F.P.key[1])
            /\ Len(F.P.key_to_row_idx) > 0
    THEN [F EXCEPT !.idx = F.P.key_to_row_idx[Len(F.P.key_to_row_idx)].idx]
    ELSE new_row(F, info)

resolve_row(F, info) == IF F.err # "" THEN F ELSE choose_row(F, info)

\* The goal branch for one value: "none" while the value is only recorded
\* as the best, "improved" or "regressed" after a comparison, "error" when
\* value - best raises TypeError.
goal_mark(P, name, value, goal, goal_wait, prev_count) ==
    IF name \notin DOMAIN P.best \/ prev_count <= goal_wait
    THEN "none"
    ELSE IF ~(IsNumber(value) /\ IsNumber(P.best[name]))
    THEN "error"
    ELSE IF (Tenths(value) - Tenths(P.best[name]))
                * (IF goal = lower_is_better THEN -1 ELSE 1) > 0
    THEN "improved"
    ELSE "regressed"

\* The mark of an item: "plain" when its field has no goal.
item_mark(P, name, value, goal, goal_wait, prev_count) ==
    IF Len(goal) = 0 THEN "plain"
    ELSE goal_mark(P, name, value, goal[1], goal_wait[1], prev_count)

set_best(best, name, value) ==
    [n \in DOMAIN best \cup {name} |-> IF n = name THEN value ELSE best[n]]

marked(mark, text) ==
    CASE mark = "improved" -> "[green]" \o text \o "[/green]"
      [] mark = "regressed" -> "[red]" \o text \o "[/red]"
      [] OTHER -> text

\* The end of the loop body for the i-th item: the new best, then the
\* cell write, which raises IndexError for a row the column does not have.
write_cell(F, i, name, value, col, mark, text) ==
    IF mark = "error"
    THEN [F EXCEPT !.err = "TypeError", !.field = name, !.marks[i] = "error"]
    ELSE IF F.idx + 1 > Len(F.P.logger_table[1].columns[col].cells)
    THEN [F EXCEPT !.err = "IndexError", !.field = name, !.marks[i] = mark,
                   !.P.best = IF mark \in {"none", "improved"}
                              THEN set_best(@, name, value) ELSE @]
    ELSE [F EXCEPT !.marks[i] = mark,
                   !.P.best = IF mark \in {"none", "improved"}
                              THEN set_best(@, name, value) ELSE @,
                   !.P.logger_table[1].columns[col].cells[F.idx + 1] =
                       marked(mark, text)]

\* The loop body with the best stored before the value is formatted.
write_visible_partial(F, i, name, value, col, formatted, goal, goal_wait) ==
    IF ~formatted.ok
    THEN [F EXCEPT !.err = "ValueError", !.field = name, !.marks[i] = "format",
                   !.P.best = set_best(@, name, value)]
    ELSE write_cell(F, i, name, value, col,
            item_mark(F.P, name, value, goal, goal_wait,
                      Len(F.P.logger_table[1].columns[col].cells)),
            formatted.text)

\* The loop body for a field with a column: prev_count, the formatted
\* value (ValueError when the format does not apply), goal and goal_wait.
write_visible(F, i, name, value, col, formatted, goal, goal_wait) ==
    IF ~formatted.ok
    THEN [F EXCEPT !.err = "ValueError", !.field = name, !.marks[i] = "format"]
    ELSE write_cell(F, i, name, value, col,
            item_mark(F.P, name, value, goal, goal_wait,
                      Len(F.P.logger_table[1].columns[col].cells)),
            formatted.text)

\* The loop body after the test for a field without a column.
write_shown(F, i, name, value) ==
    write_visible(F, i, name, value,
        IdxOf(F.P.name_to_column_idx, name) + 1,
        str_format(
            get_last_matching_value(F.P.rules, name, "format", <<"{}">>).value[1],
            value),
        get_last_matching_value(F.P.rules, name, "goal", << >>).value,
        get_last_matching_value(F.P.rules, name, "goal_wait", <<1>>).value)

\* The loop body for the i-th item of the record.
write_item(F, i, name, value) ==
    IF IdxOf(F.P.name_to_column_idx, name) < 0
    THEN [F EXCEPT !.marks[i] = "skip"]
    ELSE write_shown(F, i, name, value)

\* The second loop over info.items().
RECURSIVE write_cells_from(_, _, _)
write_cells_from(F, info, i) ==
    IF i > Len(info) \/ F.err # "" THEN F
    ELSE write_cells_from(write_item(F, i, info[i].name, info[i].value),
                          info, i + 1)

write_cells(F, info) == write_cells_from(F, info, 1)

\* log_metrics(info): the frame after the call (the refresh that ends it
\* changes nothing of the printer).
log_metrics(P, info) ==
    write_cells(
        resolve_row(
            reorder(
                register_columns(
                    Frame(ensure_live(P), "", "", -1, [i \in 1..Len(info) |-> ""]),
                    info)),
            info),
        info)

-----
(* The printers of the runs: the constructor's key and fields, and the     *)
(* records the caller logs.                                                *)

NoRule == Rule(<< >>, << >>, << >>, << >>)

\* tests/test_logger.py, test_simple.
SimpleKey == <<"step">>
SimpleFields ==
    << Field("col2", Rule(<<"COLUMN2">>, << >>, << >>, << >>)),
       Field("col1", Rule(<<"COLUMN1">>, << >>, << >>, << >>)),
       Field("col4", RuleFalse),
       Field("col5", RuleTrue) >>
SimpleScript ==
    << <<Item("step", IntV(1)), Item("col1", IntV(4))>>,
       <<Item("step", IntV(1)), Item("col1", IntV(3))>>,
       <<Item("step", IntV(2)), Item("col2", StrV("ok"))>>,
       <<Item("step", IntV(2)), Item("col3", FloatV(35))>>,
       <<Item("step", IntV(3)), Item("col2", StrV("ko")), Item("col1", IntV(4)),
         Item("col4", StrV("ok")), Item("col5", IntV(3))>> >>
SimpleRecords ==
    {SimpleScript[i] : i \in 1..Len(SimpleScript)}
        \cup { <<Item("col1", IntV(7))>> }

\* A printer without a key, with goals, a hidden field and a field (x) that
\* no rule matches.
GoalFields ==
    << Field("loss", Rule(<< >>, <<lower_is_better>>, << >>, << >>)),
       Field("tmp", RuleFalse),
       Field("acc", Rule(<< >>, <<higher_is_better>>, <<2>>, <<"{:.1f}">>)) >>
GoalRecords ==
    { <<Item("loss", IntV(10))>>,
      <<Item("loss", IntV(8))>>,
      <<Item("loss", IntV(9))>>,
      <<Item("loss", StrV("nan"))>>,
      <<Item("x", IntV(1)), Item("acc", IntV(5))>>,
      <<Item("acc", FloatV(75))>>,
      <<Item("tmp", IntV(3)), Item("loss", IntV(8))>>,
      <<Item("tmp", StrV("t"))>> }

\* A printer with a key and a goal with goal_wait = 1.
KeyedFields ==
    << Field("loss", Rule(<< >>, <<lower_is_better>>, <<1>>, << >>)) >>
KeyedRecords ==
    { <<Item("step", IntV(1)), Item("loss", IntV(10))>>,
      <<Item("step", IntV(1)), Item("loss", IntV(8))>>,
      <<Item("step", IntV(1)), Item("loss", IntV(9))>>,
      <<Item("step", IntV(2)), Item("loss", IntV(8))>>,
      <<Item("loss", IntV(9))>> }

\* tests/test_logger.py, test_no_context: the wildcard True rule is last.
WildFields ==
    << Field("step", NoRule),
       Field("(.*)_precision",
             Rule(<<"\\1_p">>, <<higher_is_better>>, << >>, <<"{:.4f}">>)),
       Field("duration", Rule(<<"dur(s)">>, << >>, << >>, <<"{:.1f}">>)),
       Field(".*", RuleTrue) >>
WildRecords ==
    { <<Item("step", IntV(0)), Item("task_precision", FloatV(0))>>,
      <<Item("step", IntV(0)), Item("duration", FloatV(2))>>,
      <<Item("step", IntV(1)), Item("task_precision", FloatV(5))>>,
      <<Item("test", IntV(1))>> }

\* A printer whose key is no entry of fields, with a wildcard True rule
\* last, as the rule sets of the tests end.
LateFields ==
    << Field("loss", Rule(<< >>, <<lower_is_better>>, << >>, << >>)),
       Field(".*", RuleTrue) >>
LateRecords ==
    { <<Item("loss", IntV(10)), Item("step", IntV(1))>>,
      <<Item("step", IntV(2)), Item("loss", IntV(8))>> }

\* A printer with a key whose rules name their columns: a pattern with a
\* group and a name without a reference, a pattern without a group and a
\* name with a reference; the first has a float format.  Both patterns
\* match loss_acc, re.match finding loss at its start.
NamedFields ==
    << Field("(.*)_acc",
             Rule(<<"ACC">>, <<higher_is_better>>, <<1>>, <<"{:.1f}">>)),
       Field("loss", Rule(<<"\\1_l">>, << >>, << >>, << >>)) >>
NamedRecords ==
    { <<Item("step", IntV(1)), Item("val_acc", IntV(5))>>,
      <<Item("step", IntV(1)), Item("loss", IntV(2)),
        Item("val_acc", StrV("bad"))>>,
      <<Item("step", IntV(2)), Item("val_acc", FloatV(75))>>,
      <<Item("step", IntV(2)), Item("loss_acc", IntV(3))>> }

Configs == {"simple", "goal", "keyed", "wild", "late", "named"}

ConfigKey(c) ==
    CASE c = "simple" -> SimpleKey
      [] c = "goal" -> << >>
      [] c = "keyed" -> <<"step">>
      [] c = "wild" -> <<"step">>
      [] c = "late" -> <<"step">>
      [] c = "named" -> <<"step">>

ConfigFields(c) ==
    CASE c = "simple" -> SimpleFields
      [] c = "goal" -> GoalFields
      [] c = "keyed" -> KeyedFields
      [] c = "wild" -> WildFields
      [] c = "late" -> LateFields
      [] c = "named" -> NamedFields

Records(c) ==
    CASE c = "simple" -> SimpleRecords
      [] c = "goal" -> GoalRecords
      [] c = "keyed" -> KeyedRecords
      [] c = "wild" -> WildRecords
      [] c = "late" -> LateRecords
      [] c = "named" -> NamedRecords

----------------------------------------------------------------------------
(* The state machine.                                                      *)

VARIABLES
    config,             \* which printer this run constructed
    key,                \* self.key
    rules,              \* self.rules
    key_to_row_idx,     \* self.key_to_row_idx
    name_to_column_idx, \* self.name_to_column_idx
    best,               \* self.best
    logger_table,       \* self.logger_table
    started,            \* the live display is started
    call,               \* the last log_metrics call: its record and outcome
    ncalls,             \* the number of log_metrics calls made
    obs,                \* per goal field, the values logged and their marks
    seen,               \* the field names in the order they were first logged
    script,             \* how far the run has followed test_simple's script
    tqdm_new,           \* tqdm.tqdm.__new__: "tqdm" (tqdm's own), "printer"
                        \* or the name of the printer of printers it calls
    old_tqdm_new,       \* self._old_tqdm_new
    tasks,              \* the ids of the tasks of the Progress (self._tasks)
    task_index,         \* the id of the next task (self._task_index)
    displayed_tasks,    \* self.displayed_tasks, as task ids
    disposable,         \* task["disposable"] of every task dict made
    shims,              \* the TqdmShim objects made, in order
    in_with,            \* the caller is inside a with-block of the printer
    at_enter,           \* tqdm.tqdm.__new__ and _old_tqdm_new at __enter__
    released,           \* finalize has stopped the live display
    event,              \* the last operation and what it did
    printers            \* the other printers constructed, in order

lifeVars == <<tqdm_new, old_tqdm_new, tasks, task_index, displayed_tasks,
              disposable, shims, in_with, at_enter, released, event, printers>>

vars == <<config, key, rules, key_to_row_idx, name_to_column_idx, best,
          logger_table, started, call, ncalls, obs, seen, script,
          tqdm_new, old_tqdm_new, tasks, task_index, displayed_tasks,
          disposable, shims, in_with, at_enter, released, event, printers>>

\* The printer as a record.
Printer ==
    [key |-> key, rules |-> rules, key_to_row_idx |-> key_to_row_idx,
     name_to_column_idx |-> name_to_column_idx, best |-> best,
     logger_table |-> logger_table, started |-> started]

\* What the last operation did: the exception it raised ("" for none), and
\* whether it refreshed and stopped the live display; op names it when it
\* was log_metrics or finalize (__exit__ is a finalize call), else is "".
Event(op, err, refresh, stop) ==
    [op |-> op, err |-> err, refresh |-> refresh, stop |-> stop]
NoEvent == Event("", "", FALSE, FALSE)

\* RichTablePrinter.__init__
Init ==
    /\ config \in Configs
    /\ key = ConfigKey(config)
    /\ rules = init_rules(ConfigFields(config), ConfigKey(config))
    /\ key_to_row_idx = << >>
    /\ name_to_column_idx = << >>
    /\ best = << >>
    /\ logger_table = << >>
    /\ started = FALSE
    /\ call = [info |-> << >>, err |-> "", field |-> "", idx |-> -1, marks |-> << >>]
    /\ ncalls = 0
    /\ obs = << >>
    /\ seen = << >>
    /\ script = 0
    /\ tqdm_new = "tqdm"
    /\ old_tqdm_new = << >>
    /\ tasks = {}
    /\ task_index = 0
    /\ displayed_tasks = << >>
    /\ disposable = << >>
    /\ shims = << >>
    /\ in_with = FALSE
    /\ at_enter = << >>
    /\ released = FALSE
    /\ event = NoEvent
    /\ printers = << >>

GoalMarks == {"none", "improved", "regressed", "error"}

\* obs after a call: every item the goal branch handled is appended to its
\* field's log.
observe(o, info, marks) ==
    LET hit == {i \in 1..Len(info) : marks[i] \in GoalMarks}
        names == {info[i].name : i \in hit}
        entry(n) == LET i == CHOOSE j \in hit : info[j].name = n
                    IN  [value |-> info[i].value, mark |-> marks[i]]
    IN  [n \in DOMAIN o \cup names |->
            IF n \in names
            THEN Append(IF n \in DOMAIN o THEN o[n] ELSE << >>, entry(n))
            ELSE o[n]]

\* seen after a call that left the registry d: the names of the record that
\* the call registered, in the record's order, are new.
RECURSIVE first_seen(_, _, _, _)
first_seen(s, info, d, i) ==
    IF i > Len(info) THEN s
    ELSE IF HasName(d, info[i].name) /\ \A j \in 1..Len(s) : s[j] # info[i].name
    THEN first_seen(Append(s, info[i].name), info, d, i + 1)
    ELSE first_seen(s, info, d, i + 1)

\* The script position after logging info.
follow(c, s, info) ==
    IF c = "simple" /\ s >= 0 /\ s < Len(SimpleScript) /\ info = SimpleScript[s + 1]
    THEN s + 1
    ELSE -1

\* The state after a log_metrics(info) call that ended in frame r.
Called(r, info) ==
    /\ key_to_row_idx' = r.P.key_to_row_idx
    /\ name_to_column_idx' = r.P.name_to_column_idx
    /\ best' = r.P.best
    /\ logger_table' = r.P.logger_table
    /\ started' = r.P.started
    /\ call' = [info |-> info, err |-> r.err, field |-> r.field,
                idx |-> r.idx, marks |-> r.marks]
    /\ obs' = observe(obs, info, r.marks)
    /\ seen' = first_seen(seen, info, r.P.name_to_column_idx, 1)
    /\ script' = follow(config, script, info)

\* printer.log_metrics(info)
LogMetrics ==
    /\ ncalls < MaxCalls
    /\ \E info \in Records(config) :
          \E r \in {log_metrics(Printer, info)} : Called(r, info)
    /\ ncalls' = ncalls + 1
    /\ UNCHANGED <<config, key, rules>>
    /\ UNCHANGED lifeVars

Next == LogMetrics

Spec == Init /\ [][Next]_vars

----------------------------------------------------------------------------
(* The life of the printer: the live display, the tqdm constructor and the *)
(* progress entries.  The printer is a rich Progress: add_task gives the   *)
(* next task id, remove_task deletes the task, and update looks the task   *)
(* up and raises KeyError for an id that is not registered.  L is the      *)
(* printer's part that these operations touch, with what the operation     *)
(* did: refresh and stop called, and the exception raised.                 *)

\* The number of log_metrics calls and of tqdm constructions in a run of the
\* printer's life.
MaxLogs == 1
MaxShims == 2

Life ==
    [logger_table |-> logger_table, started |-> started,
     tqdm_new |-> tqdm_new, old_tqdm_new |-> old_tqdm_new,
     tasks |-> tasks, task_index |-> task_index,
     displayed_tasks |-> displayed_tasks, disposable |-> disposable,
     refresh |-> FALSE, stop |-> FALSE, err |-> ""]

\* finalize without its test of logger_table.
finalize_unguarded(L) ==
    [L EXCEPT !.refresh = TRUE,
              !.stop = TRUE,
              !.started = FALSE,
              !.tqdm_new = IF L.old_tqdm_new # << >>
                           THEN L.old_tqdm_new[1] ELSE @,
              !.old_tqdm_new = << >>,
              !.logger_table = << >>]

\* finalize
finalize(L) ==
    IF L.logger_table # << >>
    THEN [L EXCEPT !.refresh = TRUE,
                   !.stop = TRUE,
                   !.started = FALSE,
                   !.tqdm_new = IF L.old_tqdm_new # << >>
                                THEN L.old_tqdm_new[1] ELSE @,
                   !.old_tqdm_new = << >>,
                   !.logger_table = << >>]
    ELSE L

\* The hijack_tqdm that starts the live display as well.
hijack_tqdm_live(L) ==
    ensure_live(IF L.old_tqdm_new # << >> THEN L
                ELSE [L EXCEPT !.old_tqdm_new = <<L.tqdm_new>>,
                               !.tqdm_new = "printer"])

\* hijack_tqdm
hijack_tqdm(L) ==
    IF L.old_tqdm_new # << >> THEN L
    ELSE [L EXCEPT !.old_tqdm_new = <<L.tqdm_new>>, !.tqdm_new = "printer"]

\* __enter__ and __exit__
enter(L) == ensure_live(hijack_tqdm(L))
exit(L) == finalize(L)

\* The pruning that removes every displayed task, disposable or not.
prune_tasks_all(L) ==
    [L EXCEPT
        !.tasks = @ \ {L.displayed_tasks[i] : i \in 1..Len(L.displayed_tasks)},
        !.displayed_tasks = << >>]

\* prune_tasks: remove_task for every displayed task that is disposable.
prune_tasks(L) ==
    [L EXCEPT
        !.tasks = @ \ {L.displayed_tasks[i] : i \in
                        {j \in 1..Len(L.displayed_tasks) :
                            L.disposable[L.displayed_tasks[j]]}},
        !.displayed_tasks = SelectSeq(@, LAMBDA id : ~L.disposable[id])]

\* add_task, the task dict and its place in displayed_tasks.
add_task(L) ==
    [L EXCEPT
        !.tasks = @ \cup {L.task_index},
        !.task_index = @ + 1,
        !.displayed_tasks = Append(@, L.task_index),
        !.disposable = [id \in DOMAIN @ \cup {L.task_index} |->
                            IF id = L.task_index THEN FALSE ELSE @[id]]]

\* TqdmShim.__init__: the pruning belongs to the branch of a total that is
\* None.
shim_init(L, explicit_total, disable) ==
    IF disable THEN L
    ELSE add_task(IF explicit_total THEN L ELSE prune_tasks(L))

\* The __new__ that hijack_tqdm installs.
tqdm_call(L, explicit_total, disable) ==
    shim_init(ensure_live(L), explicit_total, disable)

\* A shim: its task id (-1 for None), leave, disable, and its generator:
\* idle, or suspended at the yield.
Shim(task_id, leave, disable) ==
    [task_id |-> task_id, leave |-> leave, disable |-> disable,
     iter |-> "idle"]

\* Progress.update(task_id, ...)
progress_update(L, task_id) ==
    IF task_id \in L.tasks THEN L ELSE [L EXCEPT !.err = "KeyError"]

\* TqdmShim.update
shim_update(L, s) ==
    IF s.task_id = -1 THEN L ELSE progress_update(L, s.task_id)

\* self.task["disposable"] = True
mark_disposable(L, s) == [L EXCEPT !.disposable[s.task_id] = TRUE]

\* TqdmShim.close
shim_close(L, s) ==
    prune_tasks(IF s.task_id # -1 THEN mark_disposable(L, s) ELSE L)

\* The finally of __iter__.
iter_finally(L, s) == IF ~s.leave THEN mark_disposable(L, s) ELSE L

\* The for loop of __iter__ asks for the next item: the iterable has more
\* and the item is yielded, or it is exhausted and the generator ends.
iter_advance(L, s, more) ==
    IF more THEN [L |-> L, iter |-> "yielded"]
    ELSE [L |-> iter_finally(L, s), iter |-> "idle"]

\* next() on the generator of __iter__: a new generator for an idle shim,
\* else the update after the yield and the next item.
shim_next(L, s, more) ==
    IF s.disable THEN [L |-> L, iter |-> "idle"]
    ELSE IF s.iter = "idle" THEN iter_advance(L, s, more)
    ELSE IF s.task_id \notin L.tasks
    THEN [L |-> [iter_finally(L, s) EXCEPT !.err = "KeyError"],
          iter |-> "idle"]
    ELSE iter_advance(L, s, more)

\* The generator is closed while suspended at the yield (a break).
shim_break(L, s) == [L |-> iter_finally(L, s), iter |-> "idle"]

\* The state after operation op left L.
Did(op, L) ==
    /\ logger_table' = L.logger_table
    /\ started' = L.started
    /\ tqdm_new' = L.tqdm_new
    /\ old_tqdm_new' = L.old_tqdm_new
    /\ tasks' = L.tasks
    /\ task_index' = L.task_index
    /\ displayed_tasks' = L.displayed_tasks
    /\ disposable' = L.disposable
    /\ released' = (released \/ L.stop)
    /\ event' = Event(op, L.err, L.refresh, L.stop)
    /\ UNCHANGED <<config, key, rules, key_to_row_idx, name_to_column_idx,
                   best, call, ncalls, obs, seen, script, printers>>

\* The records logged in a run of the printer's life.
LifeRecords ==
    { <<Item("step", IntV(1)), Item("loss", IntV(10))>>,
      <<Item("loss", IntV(9))>> }

\* printer.log_metrics(info)
LifeLog ==
    /\ ncalls < MaxLogs
    /\ \E info \in LifeRecords :
          \E r \in {log_metrics(Printer, info)} : Called(r, info)
    /\ ncalls' = ncalls + 1
    /\ event' = Event("log_metrics", call'.err, call'.err = "", FALSE)
    /\ UNCHANGED <<config, key, rules, tqdm_new, old_tqdm_new, tasks,
                   task_index, displayed_tasks, disposable, shims, in_with,
                   at_enter, released, printers>>

\* printer.finalize()
Finalize ==
    /\ Did("finalize", finalize(Life))
    /\ UNCHANGED <<shims, in_with, at_enter>>

\* printer.hijack_tqdm()
HijackTqdm ==
    /\ Did("", hijack_tqdm(Life))
    /\ UNCHANGED <<shims, in_with, at_enter>>

\* with printer: the block is entered
Enter ==
    /\ ~in_with
    /\ Did("", enter(Life))
    /\ in_with' = TRUE
    /\ at_enter' = <<[tqdm_new |-> tqdm_new, hijacked |-> old_tqdm_new # << >>]>>
    /\ UNCHANGED shims

\* with printer: the block is left, normally or by an exception
Exit ==
    /\ in_with
    /\ Did("finalize", exit(Life))
    /\ in_with' = FALSE
    /\ at_enter' = << >>
    /\ UNCHANGED shims

\* tqdm.tqdm(iterable, total=..., leave=..., disable=...) while the printer's
\* __new__ is installed: a disabled bar, or an enabled one
NewShim ==
    /\ tqdm_new = "printer"
    /\ Len(shims) < MaxShims
    /\ \/ /\ Did("", tqdm_call(Life, FALSE, TRUE))
          /\ shims' = Append(shims, Shim(-1, FALSE, TRUE))
       \/ \E explicit_total \in BOOLEAN, leave \in BOOLEAN :
             /\ Did("", tqdm_call(Life, explicit_total, FALSE))
             /\ shims' = Append(shims, Shim(task_index, leave, FALSE))
    /\ UNCHANGED <<in_with, at_enter>>

\* The state after a step of the generator of shim k.
Iterated(k, op, r) ==
    /\ Did(op, r.L)
    /\ shims' = [shims EXCEPT ![k].iter = r.iter]
    /\ UNCHANGED <<in_with, at_enter>>

\* next() on the iteration of a shim, whose iterable has more items or not
IterNext ==
    \E k \in 1..Len(shims), more \in BOOLEAN :
        Iterated(k, "", shim_next(Life, shims[k], more))

\* the loop over a shim is left by a break
IterBreak ==
    \E k \in 1..Len(shims) :
        /\ shims[k].iter = "yielded"
        /\ Iterated(k, "", shim_break(Life, shims[k]))

\* shim.update(n)
Update ==
    /\ \E k \in 1..Len(shims) : Did("", shim_update(Life, shims[k]))
    /\ UNCHANGED <<shims, in_with, at_enter>>

\* shim.close()
Close ==
    /\ \E k \in 1..Len(shims) : Did("", shim_close(Life, shims[k]))
    /\ UNCHANGED <<shims, in_with, at_enter>>

LifeInit == Init /\ config = "keyed"

LifeNext ==
    \/ LifeLog
    \/ Finalize
    \/ HijackTqdm
    \/ Enter
    \/ Exit
    \/ NewShim
    \/ IterNext
    \/ IterBreak
    \/ Update
    \/ Close

LifeSpec == LifeInit /\ [][LifeNext]_vars

----------------------------------------------------------------------------
(* What the claims speak of.                                               *)

\* The registered field names, and those with a column.
Registered == {name_to_column_idx[i].name : i \in 1..Len(name_to_column_idx)}
Visible == {n \in Registered : IdxOf(name_to_column_idx, n) >= 0}

\* The column of a visible field, its header and its cell in row r (from 0).
ColumnOf(n) == logger_table[1].columns[IdxOf(name_to_column_idx, n) + 1]
Header(n) == ColumnOf(n).header
HasCell(n, r) == r + 1 <= Len(ColumnOf(n).cells)
Cell(n, r) == ColumnOf(n).cells[r + 1]
Rows == IF logger_table = << >> THEN 0 ELSE logger_table[1].rows
Headers ==
    IF logger_table = << >> THEN << >>
    ELSE [c \in 1..Len(logger_table[1].columns) |-> logger_table[1].columns[c].header]

\* The position of a name in seen.
SeenPos(n) == CHOOSE j \in 1..Len(seen) : seen[j] = n

\* The index of the last rule that matches a name, << >> when none does.
RuleIndex(n) == get_last_matching_index(rules, n)

----------------------------------------------------------------------------
\* C1: after any sequence of log_metrics calls the visible columns are
\* ordered by the index of the last rule that matches their field; the fields
\* that no rule matches come after all matched fields, in first-seen order.
ColumnsInRuleOrder ==
    \A a \in Visible : \A b \in Visible :
        IdxOf(name_to_column_idx, a) < IdxOf(name_to_column_idx, b) =>
            /\ (Len(RuleIndex(a)) > 0 /\ Len(RuleIndex(b)) > 0)
                    => RuleIndex(a)[1] <= RuleIndex(b)[1]
            /\ Len(RuleIndex(a)) = 0 => Len(RuleIndex(b)) = 0
            /\ (Len(RuleIndex(a)) = 0 /\ Len(RuleIndex(b)) = 0)
                    => SeenPos(a) < SeenPos(b)

----------------------------------------------------------------------------
(* The last call, and a step that is a call.                               *)

\* A step of the run is one log_metrics call.
IsCall == ncalls' = ncalls + 1

\* The items of call c that the second loop wrote into the row.
WrittenMarks == {"plain", "none", "improved", "regressed"}
Written(c) ==
    {i \in 1..Len(c.info) :
        c.marks[i] \in WrittenMarks /\ ~(c.err # "" /\ c.field = c.info[i].name)}
WroteName(c, n) == \E i \in Written(c) : c.info[i].name = n

\* The text log_metrics formats for a value of field n, without a marker.
FormatOf(n) == get_last_matching_value(rules, n, "format", <<"{}">>).value[1]
PlainText(n, value) == str_format(FormatOf(n), value).text

\* The goal and the goal_wait of field n.
GoalOf(n) == get_last_matching_value(rules, n, "goal", << >>).value
GoalWaitOf(n) == get_last_matching_value(rules, n, "goal_wait", <<1>>).value[1]

\* After the step: the fields with a column and the cell of field n in row r.
NewVisible ==
    {name_to_column_idx'[i].name : i \in
        {j \in 1..Len(name_to_column_idx') : name_to_column_idx'[j].idx >= 0}}
NewCell(n, r) ==
    logger_table'[1].columns[IdxOf(name_to_column_idx', n) + 1].cells[r + 1]

\* The record lacks the configured key / carries it.
LacksKey(info) == Len(key) > 0 /\ ~InInfo(info, key[1])
CarriesKey(info) == Len(key) > 0 /\ InInfo(info, key[1])

----------------------------------------------------------------------------
\* The row of a call that carries the key: the row of its key value, created
\* by this call when the key value has none.
UpsertRow(c) ==
    IF HasKey(key_to_row_idx, InfoValue(c.info, key[1]))
    THEN /\ Rows' = Rows
         /\ key_to_row_idx' = key_to_row_idx
         /\ c.idx = RowOf(key_to_row_idx, InfoValue(c.info, key[1]))
    ELSE /\ Rows' = Rows + 1
         /\ key_to_row_idx' =
                Append(key_to_row_idx,
                       [key |-> InfoValue(c.info, key[1]), idx |-> Rows])
         /\ c.idx = Rows

\* The call wrote its items into its row and left every other cell alone.
LastWriteWins(c) ==
    /\ \A i \in Written(c) :
          NewCell(c.info[i].name, c.idx) =
              marked(c.marks[i], PlainText(c.info[i].name, c.info[i].value))
    /\ \A n \in Visible : \A r \in 0..(Rows - 1) :
          (HasCell(n, r) /\ ~(r = c.idx /\ WroteName(c, n)))
              => NewCell(n, r) = Cell(n, r)

\* C2: with a key, a call whose key value is already mapped creates no row
\* and writes into the row the first call of that key value created; every
\* cell holds the value of the last call that wrote it.
OneRowPerKeyValue ==
    [][(IsCall /\ CarriesKey(call'.info))
            => (UpsertRow(call') /\ LastWriteWins(call'))]_vars

\* A second call with the key value 1 has overwritten col1 in the one row.
OneRowPerKeyValueWitness ==
    /\ config = "simple"
    /\ ncalls = 2
    /\ call.info = SimpleScript[2]
    /\ key_to_row_idx = <<[key |-> IntV(1), idx |-> 0]>>
    /\ Rows = 1
    /\ Cell("col1", 0) = "3"

----------------------------------------------------------------------------
\* The rules declared before the last one.
EarlierRules == SubSeq(rules, 1, Len(rules) - 1)

WildcardLast ==
    /\ Len(rules) > 0
    /\ rules[Len(rules)].rule.kind = "True"
    /\ \A n \in Registered : re_match(rules[Len(rules)].pattern, n)

Attributes == {"name", "format", "goal", "goal_wait"}

DefaultOf(attribute, n) ==
    CASE attribute = "name" -> <<n>>
      [] attribute = "format" -> <<"{}">>
      [] attribute = "goal" -> << >>
      [] attribute = "goal_wait" -> <<1>>

\* The resolution by the earlier rules is by a descriptor that sets the
\* attribute, and the whole rule set resolves to the same value.
KeepsEarlier(n, attribute, earlier, all) ==
    (Len(earlier.matcher) > 0 /\ ~earlier.hidden)
        => (~all.hidden /\ all.value = earlier.value)

\* The header the earlier rules give the column of n.
KeepsHeader(n, earlier) ==
    (Len(earlier.matcher) > 0 /\ ~earlier.hidden /\ n \in Visible)
        => Header(n) = column_name(earlier.matcher, earlier.value[1], n).text

\* C3: when a True rule that matches every field is declared last, a field
\* that an earlier descriptor rule matches keeps the attributes that rule
\* sets; the wildcard gives only the defaults of the unset ones.
WildcardKeepsEarlierRules ==
    WildcardLast =>
        \A n \in Registered :
            /\ \A a \in Attributes :
                  KeepsEarlier(n, a,
                      get_last_matching_value(EarlierRules, n, a, DefaultOf(a, n)),
                      get_last_matching_value(rules, n, a, DefaultOf(a, n)))
            /\ KeepsHeader(n,
                  get_last_matching_value(EarlierRules, n, "name", <<n>>))

----------------------------------------------------------------------------
\* C4: test_simple's five records, logged in order, end with 3 rows and
\* the 4 columns step, COLUMN2, COLUMN1, col5; row step=1 holds col1=3, row
\* step=2 holds col2=ok and an empty col1, row step=3 holds col2=ko, col1=4
\* and col5=3; col3 and col4 never have a column.
SimpleScenario ==
    (config = "simple" /\ script >= 0) =>
        /\ \A n \in {"col3", "col4"} : n \notin Visible
        /\ script = Len(SimpleScript) =>
              /\ Rows = 3
              /\ Headers = <<"step", "COLUMN2", "COLUMN1", "col5">>
              /\ ColumnOf("step").cells = <<"1", "2", "3">>
              /\ ColumnOf("col2").cells = <<"", "ok", "ko">>
              /\ ColumnOf("col1").cells = <<"3", "", "4">>
              /\ ColumnOf("col5").cells = <<"", "", "3">>

----------------------------------------------------------------------------
\* The visible items of a record are written into row r by call c.
WroteAll(c, r) ==
    /\ c.err = ""
    /\ c.idx = r
    /\ \A i \in 1..Len(c.info) :
          (c.info[i].name \in NewVisible) =>
              /\ i \in Written(c)
              /\ NewCell(c.info[i].name, r) =
                     marked(c.marks[i], PlainText(c.info[i].name, c.info[i].value))

\* C5: with a key, a call whose record lacks the key while the table has no
\* row succeeds: it creates row 0, writes the record's visible fields into
\* it and records no key mapping.
KeylessFirstCallCreatesRow ==
    [][(IsCall /\ LacksKey(call'.info) /\ Rows = 0)
            => /\ Rows' = 1
               /\ WroteAll(call', 0)
               /\ key_to_row_idx' = << >>]_vars

\* C6: with a key, after keyed calls have created at least one row (and
\* updated any of the rows), a call whose record lacks the key creates no
\* row and no mapping and writes its fields into the most recently created
\* row.
KeylessCallUpdatesLastRow ==
    [][(IsCall /\ LacksKey(call'.info) /\ key_to_row_idx # << >>)
            => /\ Rows' = Rows
               /\ key_to_row_idx' = key_to_row_idx
               /\ WroteAll(call', Rows - 1)]_vars

\* Rows 0 and 1 exist, row 0 holds the col1 of its last keyed update, and
\* the record col1=7 without the key has been written into row 1.
KeylessCallUpdatesLastRowWitness ==
    /\ config = "simple"
    /\ call.info = <<Item("col1", IntV(7))>>
    /\ call.err = ""
    /\ call.idx = 1
    /\ key_to_row_idx = <<[key |-> IntV(1), idx |-> 0], [key |-> IntV(2), idx |-> 1]>>
    /\ Rows = 2
    /\ ColumnOf("col1").cells = <<"3", "7">>

----------------------------------------------------------------------------
\* The values and the marks of the first k goal observations of field n.
ObsValues(n, k) == [j \in 1..k |-> obs[n][j].value]
ObsMarks(n, k) == [j \in 1..k |-> obs[n][j].mark]

\* value is strictly better than b in the goal's direction.
Better(value, b, goal) ==
    IF goal = lower_is_better THEN Tenths(value) < Tenths(b)
    ELSE Tenths(value) > Tenths(b)

\* The hints of the values 10, 8, 9 logged first for a lower_is_better field
\* of goal_wait 1.
TenEightNine(n) ==
    (/\ GoalOf(n) = <<lower_is_better>>
     /\ GoalWaitOf(n) = 1
     /\ Len(obs[n]) >= 3
     /\ ObsValues(n, 3) = <<IntV(10), IntV(8), IntV(9)>>)
        => ObsMarks(n, 3) = <<"none", "improved", "regressed">>

\* A compared value is improved, and the new best, exactly when it is
\* strictly better than the stored best; otherwise the best stays.
ComparedItem(c, i) ==
    c.marks[i] \in {"improved", "regressed"} =>
        /\ c.marks[i] = "improved"
              <=> Better(c.info[i].value, best[c.info[i].name],
                         GoalOf(c.info[i].name)[1])
        /\ best'[c.info[i].name] =
              IF c.marks[i] = "improved" THEN c.info[i].value
              ELSE best[c.info[i].name]

\* C7: for a lower_is_better field with goal_wait = 1 the values 10, 8, 9 of
\* three successive calls get the hints none, improved, regressed; a compared
\* value is improved and replaces the best exactly when it is strictly
\* better, and is regressed, the best unchanged, otherwise (a tie included).
GoalHints ==
    [][IsCall =>
          /\ \A n \in DOMAIN obs' : TenEightNine(n)'
          /\ \A i \in 1..Len(call'.info) : ComparedItem(call', i)]_vars

\* C8: a goal field's value is compared only once the field's own count of
\* logged values exceeds its goal_wait; until then every value is stored as
\* the best and written without a marker, however many rows the table has.
WarmUpByOwnCount ==
    /\ \A n \in DOMAIN obs : \A k \in 1..Len(obs[n]) :
          k <= GoalWaitOf(n) => obs[n][k].mark = "none"
    /\ \A i \in 1..Len(call.info) :
          (/\ call.info[i].name \in DOMAIN obs
           /\ i \in Written(call)
           /\ Len(obs[call.info[i].name]) <= GoalWaitOf(call.info[i].name))
              => /\ best[call.info[i].name] = call.info[i].value
                 /\ Cell(call.info[i].name, call.idx) =
                        PlainText(call.info[i].name, call.info[i].value)

\* C9: a non-numeric value of a goal field, once formatted, is never compared
\* with the best, on its first or on a later observation: it gets no hint,
\* its handling raises no TypeError, and the cell written for it is the
\* formatted value without a marker.
NonNumericSkipsComparison ==
    \A i \in 1..Len(call.info) :
        (/\ ~IsNumber(call.info[i].value)
         /\ call.info[i].name \in Visible
         /\ Len(GoalOf(call.info[i].name)) > 0
         /\ call.marks[i] \notin {"", "format"})
            => /\ call.marks[i] = "none"
               /\ call.err # "TypeError"
               /\ i \in Written(call) =>
                      Cell(call.info[i].name, call.idx) =
                          PlainText(call.info[i].name, call.info[i].value)

----------------------------------------------------------------------------
\* The rule that decides field n is a False rule.
IsHidden(n) == get_last_matching_value(rules, n, "name", <<n>>).hidden

\* The record holds a field that a False rule decides.
HasHidden(info) == \E i \in 1..Len(info) : IsHidden(info[i].name)

\* C10: a field that a False rule decides never gets a column, never has a
\* cell written and never raises, whatever its value; the call that logs
\* it still writes the other fields of its record.
HiddenFieldsDropped ==
    /\ \A n \in Registered : IsHidden(n) => n \notin Visible
    /\ \A i \in 1..Len(call.info) :
          IsHidden(call.info[i].name) =>
              /\ call.marks[i] \in {"", "skip"}
              /\ ~(call.err # "" /\ call.field = call.info[i].name)
    /\ HasHidden(call.info) =>
          \A i \in 1..Len(call.info) :
              call.info[i].name \in Visible =>
                  /\ i \in Written(call)
                  /\ Cell(call.info[i].name, call.idx) =
                         marked(call.marks[i],
                                PlainText(call.info[i].name, call.info[i].value))

----------------------------------------------------------------------------
(* The life of the printer: finalize, the with-block and the progress      *)
(* entries.                                                                *)

\* C11: once finalize has released the live display and nothing has
\* acquired it again, a log_metrics call raises, creates no table and does
\* not start the live display (stated for the calls whose record carries
\* the key).
LogAfterFinalizeRejected ==
    [][(LifeLog /\ released /\ logger_table = << >> /\ CarriesKey(call'.info)) =>
           /\ call'.err # ""
           /\ logger_table' = << >>
           /\ ~started']_vars

\* The printer's own state, the shims aside.
printerVars ==
    <<key_to_row_idx, name_to_column_idx, best, logger_table, started,
      tqdm_new, old_tqdm_new, tasks, task_index, displayed_tasks, disposable>>

\* C12: the live display is started exactly when the printer has a table; a
\* finalize call (also the one of __exit__) on an active display refreshes
\* and stops it once and leaves it inactive; a finalize call on an inactive
\* display (a second finalize, or one before any use) refreshes nothing,
\* stops nothing and changes nothing of the printer; and nothing but
\* finalize stops the display.
FinalizeIdempotent ==
    /\ [](started <=> logger_table # << >>)
    /\ [][(Finalize \/ Exit) =>
             IF started
             THEN /\ event'.refresh /\ event'.stop
                  /\ ~started' /\ logger_table' = << >>
             ELSE /\ ~event'.refresh /\ ~event'.stop
                  /\ UNCHANGED printerVars
                  /\ UNCHANGED shims]_vars
    /\ [][event'.stop => (started /\ ~started' /\ event'.op = "finalize")]_vars

\* A second finalize has just returned: the display was released before,
\* and this call stopped nothing.
FinalizeIdempotentWitness ==
    /\ event.op = "finalize"
    /\ ~event.stop
    /\ released
    /\ ~started

\* C13: when the with-block of a printer that had not hijacked tqdm before
\* is left, normally or by an exception of the body, the live display is
\* stopped, logger_table is None and tqdm's constructor is the one that was
\* installed when __enter__ was called.
ExitRestores ==
    [][(Exit /\ ~at_enter[1].hijacked) =>
           /\ ~started'
           /\ logger_table' = << >>
           /\ tqdm_new' = at_enter[1].tqdm_new]_vars

\* The displayed entries that are marked disposable.
DisplayedDisposable ==
    {displayed_tasks[i] : i \in {j \in 1..Len(displayed_tasks) :
                                    disposable[displayed_tasks[j]]}}

\* An enabled TqdmShim has been constructed in this step.
Started == task_index' = task_index + 1

\* C14: the construction of an enabled TqdmShim, with or without an explicit
\* total, removes the entries marked disposable before it registers the new
\* one: right after it no displayed entry is disposable.
StartPrunesFirst ==
    [][Started => DisplayedDisposable' = {}]_vars

\* C15: an entry marked disposable at the end of its loop (leave = False) is
\* gone from the overlay at the latest when finalize has released the live
\* display: right after such a finalize no displayed entry is disposable.
FinalizePrunes ==
    (event.op = "finalize" /\ event.stop) => DisplayedDisposable = {}

\* The task is in the overlay: registered in the Progress and displayed.
InOverlay(id) ==
    /\ id \in tasks
    /\ \E i \in 1..Len(displayed_tasks) : displayed_tasks[i] = id

\* C16: the entry of a shim made with leave = True is never marked
\* disposable and never leaves the overlay, whatever was iterated, closed
\* or started since.
LeaveKeepsEntry ==
    \A k \in 1..Len(shims) :
        (shims[k].leave /\ ~shims[k].disable) =>
            /\ ~disposable[shims[k].task_id]
            /\ InOverlay(shims[k].task_id)

\* C17: update(n), the iteration and close() of a shim raise nothing, also
\* when the shim's entry has been removed from the overlay: log_metrics
\* aside, no operation ends with an exception.
RemovedEntryTolerated ==
    event.op # "log_metrics" => event.err = ""

----------------------------------------------------------------------------
(* The key's rule, failing formats and display names.                      *)

\* The constructor was given a key that is no entry of fields.
KeyInserted == Len(key) > 0 /\ ~HasPattern(ConfigFields(config), key[1])

\* C18: a key that is no entry of fields is inserted as the first rule with
\* an empty descriptor, and once the key has been logged its column is
\* visible and is the first column of the table, for every rule set.
KeyColumnFirst ==
    KeyInserted =>
        /\ rules[1] = Field(key[1], NoRule)
        /\ key[1] \in Registered =>
              /\ key[1] \in Visible
              /\ IdxOf(name_to_column_idx, key[1]) = 0

\* The format of the item's field does not apply to its value.
FormatFails(item) == ~str_format(FormatOf(item.name), item.value).ok

\* After the step, field n has a cell in row r.
NewHasCell(n, r) ==
    r + 1 <= Len(logger_table'[1].columns[IdxOf(name_to_column_idx', n) + 1].cells)

\* Field n is as before the call: the same best or none, and in row r the
\* cell it had, or the empty cell of a row or column the call made.
FieldUntouched(n, r) ==
    /\ (n \in DOMAIN best') = (n \in DOMAIN best)
    /\ n \in DOMAIN best => best'[n] = best[n]
    /\ NewHasCell(n, r) =>
          NewCell(n, r) = IF n \in Visible /\ r < Rows /\ HasCell(n, r)
                          THEN Cell(n, r) ELSE ""

\* The items of call c before the i-th that have a column are written.
EarlierWritten(c, i) ==
    \A j \in 1..(i - 1) :
        c.info[j].name \in NewVisible =>
            /\ j \in Written(c)
            /\ NewCell(c.info[j].name, c.idx) =
                   marked(c.marks[j], PlainText(c.info[j].name, c.info[j].value))

\* C19: when the second loop of log_metrics reaches a field with a column
\* whose format does not apply to the value, the call raises the format's
\* ValueError for that field; the field's best and its cell in the call's
\* row are what they were before the call, and the fields of the record
\* before it are written.
FormatErrorKeepsField ==
    [][IsCall =>
          \A i \in 1..Len(call'.info) :
              (/\ call'.marks[i] # ""
               /\ call'.info[i].name \in NewVisible
               /\ FormatFails(call'.info[i]))
                  => /\ call'.err = "ValueError"
                     /\ call'.field = call'.info[i].name
                     /\ FieldUntouched(call'.info[i].name, call'.idx)
                     /\ EarlierWritten(call', i)]_vars

\* A call has failed at the format of its third field, which has a best
\* and a written cell from an earlier call; the two fields before it are
\* written.
FormatErrorKeepsFieldWitness ==
    /\ call.err = "ValueError"
    /\ Len(call.info) = 3
    /\ call.field = call.info[3].name
    /\ call.marks = <<"plain", "plain", "format">>
    /\ call.field \in DOMAIN best
    /\ Cell(call.field, call.idx) # ""
    /\ Cell(call.info[2].name, call.idx) =
           PlainText(call.info[2].name, call.info[2].value)

\* The rule that gives field n its name, and the name it gives.
NameRule(n) == get_last_matching_value(rules, n, "name", <<n>>)
NameOf(n) == NameRule(n).value[1]

\* The name of field n refers to a group and its pattern has none.
ReferenceWithoutGroup(n) ==
    /\ Len(NameRule(n).matcher) > 0
    /\ ~NameRule(n).hidden
    /\ re_groups(NameRule(n).matcher[1]) = 0
    /\ has_backreference(NameOf(n))

\* The pattern of field n's name has a group and the name refers to none.
GroupWithoutReference(n) ==
    /\ Len(NameRule(n).matcher) > 0
    /\ ~NameRule(n).hidden
    /\ re_groups(NameRule(n).matcher[1]) > 0
    /\ ~has_backreference(NameOf(n))

Mismatched(n) == ReferenceWithoutGroup(n) \/ GroupWithoutReference(n)

\* C20 as claimed: when the name of the winning rule refers to a group and
\* the pattern has none, or the pattern has a group and the name refers to
\* none, the column is headed by the raw field name, and naming it raises
\* no error.
MismatchFallsBackToFieldName ==
    /\ \A n \in Visible : Mismatched(n) => Header(n) = n
    /\ call.err = "re.error" => ~Mismatched(call.field)

\* C20: in both cases the column is headed by the rule's name as it is
\* written, with nothing substituted, and naming it raises no error.
MismatchKeepsRuleName ==
    /\ \A n \in Visible : Mismatched(n) => Header(n) = NameOf(n)
    /\ call.err = "re.error" => ~Mismatched(call.field)

\* Both cases have a column: a name with a reference under a pattern
\* without a group, and a pattern with a group under a name without a
\* reference, each headed by the rule's name and not by the field name.
MismatchKeepsRuleNameWitness ==
    /\ \E n \in Visible :
          ReferenceWithoutGroup(n) /\ Header(n) = NameOf(n) /\ Header(n) # n
    /\ \E n \in Visible :
          GroupWithoutReference(n) /\ Header(n) = NameOf(n) /\ Header(n) # n

----------------------------------------------------------------------------
(* Rows and columns of the table.                                          *)

\* The cells of the rows before row r are what they were before the step.
EarlierRowsKept(r) ==
    \A n \in Visible : \A q \in 0..(r - 1) :
        HasCell(n, q) => NewCell(n, q) = Cell(n, q)

\* C21: without a key every log_metrics call, whether it returns or raises
\* while it writes, appends exactly one row and takes it as its row; no
\* cell of an earlier row changes, and the table has as many rows as calls
\* were made.
KeylessCallAppendsRow ==
    /\ [](Len(key) = 0 => Rows = ncalls)
    /\ [][(IsCall /\ Len(key) = 0) =>
             /\ Rows' = Rows + 1
             /\ call'.idx = Rows
             /\ EarlierRowsKept(Rows)]_vars

\* Without a key, the third call has returned: the table has three rows,
\* the call wrote loss into the last one and the cells of the two rows
\* before hold the values of the calls that made them.
KeylessCallAppendsRowWitness ==
    /\ Len(key) = 0
    /\ ncalls = 3
    /\ Rows = 3
    /\ call.err = ""
    /\ call.idx = 2
    /\ "loss" \in Visible
    /\ ColumnOf("loss").cells = <<"10", "[green]8[/green]", "[red]9[/red]">>

\* C22: every column of the table holds exactly one cell per row of the
\* table, after every call and whenever a cell is written: a column made
\* when rows exist starts with an empty cell for each of them, also for the
\* rows made while the table had no column.
ColumnsBackfilled ==
    /\ logger_table # << >> =>
          \A c \in 1..Len(logger_table[1].columns) :
              Len(logger_table[1].columns[c].cells) = Rows
    /\ call.err # "IndexError"

\* The frame of a log_metrics(info) call on the printer as it is, when its
\* first loop has ended.
BeforeReorder(info) ==
    register_columns(
        Frame(ensure_live(Printer), "", "", -1, [i \in 1..Len(info) |-> ""]),
        info)

\* The names of registry d, those with a column, and the column of name n
\* in frame F.
NamesOf(d) == {d[i].name : i \in 1..Len(d)}
VisibleOf(d) == {n \in NamesOf(d) : IdxOf(d, n) >= 0}
SlotColumn(F, n) ==
    F.P.logger_table[1].columns[IdxOf(F.P.name_to_column_idx, n) + 1]

\* B is frame A with its columns permuted: the same names, the hidden ones
\* at -1, the visible ones at the slots 0..n-1 of the n columns, one each,
\* and the slot of a name holds the column, header and cells, that its slot
\* held in A.
Permuted(A, B) ==
    LET da == A.P.name_to_column_idx
        db == B.P.name_to_column_idx
        n == Len(B.P.logger_table[1].columns)
    IN  /\ B.err = ""
        /\ Len(db) = Len(da)
        /\ NamesOf(db) = NamesOf(da)
        /\ VisibleOf(db) = VisibleOf(da)
        /\ \A i \in 1..Len(db) : db[i].idx \in -1..(n - 1)
        /\ n = Len(A.P.logger_table[1].columns)
        /\ \A s \in 0..(n - 1) :
              Cardinality({i \in 1..Len(db) : db[i].idx = s}) = 1
        /\ \A m \in VisibleOf(da) : SlotColumn(B, m) = SlotColumn(A, m)
        /\ B.P.logger_table[1].rows = A.P.logger_table[1].rows

\* The slots of the registry are the positions of the columns of the table.
SlotsArePositions ==
    logger_table # << >> =>
        /\ \A i \in 1..Len(name_to_column_idx) :
              name_to_column_idx[i].idx \in
                  -1..(Len(logger_table[1].columns) - 1)
        /\ \A s \in 0..(Len(logger_table[1].columns) - 1) :
              Cardinality({i \in 1..Len(name_to_column_idx) :
                              name_to_column_idx[i].idx = s}) = 1

\* C23: the reordering of every log_metrics call whose first loop ended only
\* permutes: each visible field's slot holds the column, with its header and
\* all its cells, that the field's slot held before, the slots of the
\* visible fields are the positions 0..n-1 of the n columns, one field each,
\* and hidden fields keep -1; so it is of the registry after every call.
ReorderOnlyPermutes ==
    /\ []SlotsArePositions
    /\ [][IsCall =>
             \A A \in {BeforeReorder(call'.info)} :
                 A.err = "" => \A B \in {reorder(A)} : Permuted(A, B)]_vars

\* test_simple's first three records are logged: col2, registered last, has
\* moved before col1, and col1 is at slot 2 with the cell it had at slot 1.
ReorderOnlyPermutesWitness ==
    /\ config = "simple"
    /\ ncalls = 3
    /\ call.err = ""
    /\ Headers = <<"step", "COLUMN2", "COLUMN1">>
    /\ IdxOf(name_to_column_idx, "col1") = 2
    /\ ColumnOf("col1").cells = <<"3", "">>
    /\ ColumnOf("col2").cells = <<"", "ok">>

----------------------------------------------------------------------------
(* The resolution of an attribute.                                         *)

\* Rule i decides attribute a of name n: its pattern matches and it is
\* Hidden, pass-through or a descriptor that sets a.
Decides(i, n, a) ==
    /\ re_match(rules[i].pattern, n)
    /\ \/ rules[i].rule.kind \in {"False", "True"}
       \/ Len(rules[i].rule[a]) > 0
Deciders(n, a) == {i \in 1..Len(rules) : Decides(i, n, a)}
LastDecider(n, a) ==
    CHOOSE i \in Deciders(n, a) : \A j \in Deciders(n, a) : j <= i

\* The outcome of rule i for attribute a.
OutcomeOf(i, a, default) ==
    [matcher |-> <<rules[i].pattern>>,
     hidden |-> rules[i].rule.kind = "False",
     value |-> CASE rules[i].rule.kind = "False" -> << >>
                 [] rules[i].rule.kind = "True" -> default
                 [] OTHER -> rules[i].rule[a]]

\* A later rule matches n and leaves a unset, and an earlier rule decides.
SkippedToEarlier(n, a) ==
    /\ Deciders(n, a) # {}
    /\ \E j \in 1..Len(rules) :
          j > LastDecider(n, a) /\ re_match(rules[j].pattern, n)

\* The names the last call resolved.
ResolvedNames == {call.info[i].name : i \in 1..Len(call.info)}

----------------------------------------------------------------------------
(* The start of the live display.                                          *)

\* The step starts the live display.
LiveStarts == ~started /\ started'

\* No log_metrics call and no progress bar has started yet.
BeforeFirstUse == ncalls = 0 /\ task_index = 0

\* The step is a tqdm construction through the printer's __new__, and the
\* entry of the with block.
Constructed == Len(shims') = Len(shims) + 1
Entered == ~in_with /\ in_with'

\* C25 as claimed: the printer is constructed with no live display, the
\* display is live exactly when logger_table is not None, and before the
\* first log_metrics call and the first start of a progress bar only these
\* two start it.
LiveStartedLazily ==
    /\ ~started
    /\ [](started <=> logger_table # << >>)
    /\ [][(LiveStarts /\ BeforeFirstUse) => (IsCall \/ Started)]_vars

\* C25: the printer is constructed with no live display, the display is
\* live exactly when logger_table is not None, and it is started only by a
\* log_metrics call, by a tqdm construction through the printer's __new__,
\* enabled or not, and by __enter__, each of which leaves it live;
\* hijack_tqdm, finalize and the operations of a bar never start it.
LiveStartedOnFirstUse ==
    /\ ~started
    /\ [](started <=> logger_table # << >>)
    /\ [][/\ LiveStarts => (IsCall \/ Constructed \/ Entered)
          /\ (IsCall \/ Constructed \/ Entered) => started']_vars

\* The with block was entered before any log_metrics call and any tqdm
\* construction, after hijack_tqdm alone had left the display off: the
\* display is live with an empty table.
LiveStartedOnFirstUseWitness ==
    /\ started
    /\ in_with
    /\ at_enter[1].hijacked
    /\ BeforeFirstUse
    /\ shims = << >>
    /\ ~released
    /\ logger_table = <<NewTable>>

----------------------------------------------------------------------------
(* The tqdm constructor.                                                   *)

\* C27: a finalize call on a printer that has hijacked tqdm, whether or not
\* a log_metrics call or a progress bar came in between, leaves tqdm's
\* constructor the one that the first hijack_tqdm call saved, and nothing
\* saved.
FinalizeRestoresTqdm ==
    [][((Finalize \/ Exit) /\ old_tqdm_new # << >>) =>
          /\ tqdm_new' = old_tqdm_new[1]
          /\ old_tqdm_new' = << >>]_vars

----------------------------------------------------------------------------
(* The entries of displayed_tasks.                                         *)

\* The task ids of sequence d, and d without the ids marked in m.
IdsOf(d) == {d[i] : i \in 1..Len(d)}
Unmarked(d, m) == SelectSeq(d, LAMBDA id : ~m[id])
MarkedIn(d, m) == {id \in IdsOf(d) : m[id]}

\* Every entry is a registered task and no task id occurs twice.
EntriesRegistered ==
    /\ IdsOf(displayed_tasks) \subseteq tasks
    /\ \A i, j \in 1..Len(displayed_tasks) :
          displayed_tasks[i] = displayed_tasks[j] => i = j

\* The step's prune pass, over the marks m it found: the marked entries and
\* their tasks are gone, the others are kept in their order.
Pruned(m) ==
    /\ displayed_tasks' = Unmarked(displayed_tasks, m)
    /\ tasks' = tasks \ MarkedIn(displayed_tasks, m)

\* The steps of a TqdmShim construction: of an enabled shim after a prune
\* pass, of an enabled shim without one, and of a disabled shim.
StartedPruned ==
    /\ displayed_tasks' = Append(Unmarked(displayed_tasks, disposable), task_index)
    /\ tasks' = (tasks \ MarkedIn(displayed_tasks, disposable)) \cup {task_index}
StartedUnpruned ==
    /\ displayed_tasks' = Append(displayed_tasks, task_index)
    /\ tasks' = tasks \cup {task_index}
OverlayKept == displayed_tasks' = displayed_tasks /\ tasks' = tasks

\* C28: every entry of displayed_tasks is a task registered in the progress
\* display and no task id occurs twice; the prune pass of close() removes
\* exactly the entries marked disposable, its own included, with their
\* tasks and keeps the others in their order, as does the pass of a
\* construction, which then appends the new entry; every other step leaves
\* the entries and the tasks as they are.  (close() makes no shim.)
OverlayEntriesPruned ==
    /\ []EntriesRegistered
    /\ [][/\ Constructed => (StartedPruned \/ StartedUnpruned \/ OverlayKept)
          /\ ~OverlayKept => (Constructed \/ Close)
          /\ Pruned(disposable') \/ shims' # shims \/ ~Close]_vars

\* Two bars were made, one was marked disposable and a prune pass has run:
\* its entry and its task are gone, the other entry is displayed, not
\* disposable, and its task registered.
OverlayEntriesPrunedWitness ==
    /\ task_index = 2
    /\ Len(displayed_tasks) = 1
    /\ tasks = {displayed_tasks[1]}
    /\ ~disposable[displayed_tasks[1]]
    /\ \E id \in 0..1 : id # displayed_tasks[1] /\ disposable[id]

----------------------------------------------------------------------------
(* Several printers in one process.  tqdm.tqdm.__new__ is one attribute of *)
(* the tqdm class, shared by every printer; the __new__ that hijack_tqdm   *)
(* installs closes over its printer (logger = self) and is named after it. *)
(* A printer of printers is the part of a RichTablePrinter that            *)
(* hijack_tqdm, finalize, __enter__, __exit__ and a tqdm construction      *)
(* touch, with what the caller did with it: in_with, hijacked (hijack_tqdm *)
(* was called and finalize not since) and finalized (finalize was called   *)
(* after the last hijack_tqdm).                                            *)

\* The number of printers constructed and of enabled bars of one printer.
NPrinters == 2
MaxBars == 1

PrinterNames == <<"printer1", "printer2", "printer3">>

\* The printer after RichTablePrinter.__init__
NewPrinter ==
    [logger_table |-> << >>, started |-> FALSE, old_tqdm_new |-> << >>,
     tasks |-> {}, task_index |-> 0, displayed_tasks |-> << >>,
     disposable |-> << >>, in_with |-> FALSE, hijacked |-> FALSE,
     finalized |-> FALSE]

\* Printer p as the operations of a printer's life see it.
PoolLife(p) ==
    [logger_table |-> printers[p].logger_table,
     started |-> printers[p].started,
     tqdm_new |-> tqdm_new,
     old_tqdm_new |-> printers[p].old_tqdm_new,
     tasks |-> printers[p].tasks,
     task_index |-> printers[p].task_index,
     displayed_tasks |-> printers[p].displayed_tasks,
     disposable |-> printers[p].disposable,
     refresh |-> FALSE, stop |-> FALSE, err |-> ""]

\* The state after an operation of printer p left L.
PoolDid(p, L, in, hijacked, finalized) ==
    /\ printers' = [printers EXCEPT ![p] =
            [logger_table |-> L.logger_table, started |-> L.started,
             old_tqdm_new |-> L.old_tqdm_new, tasks |-> L.tasks,
             task_index |-> L.task_index,
             displayed_tasks |-> L.displayed_tasks,
             disposable |-> L.disposable, in_with |-> in,
             hijacked |-> hijacked, finalized |-> finalized]]
    /\ tqdm_new' = IF L.tqdm_new = "printer" THEN PrinterNames[p]
                   ELSE L.tqdm_new
    /\ UNCHANGED <<config, key, rules, key_to_row_idx, name_to_column_idx,
                   best, logger_table, started, call, ncalls, obs, seen,
                   script, old_tqdm_new, tasks, task_index, displayed_tasks,
                   disposable, shims, in_with, at_enter, released, event>>

\* RichTablePrinter(...)
PoolConstruct ==
    /\ Len(printers) < NPrinters
    /\ printers' = Append(printers, NewPrinter)
    /\ UNCHANGED <<config, key, rules, key_to_row_idx, name_to_column_idx,
                   best, logger_table, started, call, ncalls, obs, seen,
                   script, tqdm_new, old_tqdm_new, tasks, task_index,
                   displayed_tasks, disposable, shims, in_with, at_enter,
                   released, event>>

\* p.hijack_tqdm()
PoolHijack ==
    \E p \in 1..Len(printers) :
        PoolDid(p, hijack_tqdm(PoolLife(p)), printers[p].in_with, TRUE, FALSE)

\* p.finalize()
PoolFinalize ==
    \E p \in 1..Len(printers) :
        PoolDid(p, finalize(PoolLife(p)), printers[p].in_with, FALSE,
                printers[p].hijacked \/ printers[p].finalized)

\* with p: the block is entered
PoolEnter ==
    \E p \in 1..Len(printers) :
        /\ ~printers[p].in_with
        /\ PoolDid(p, enter(PoolLife(p)), TRUE, TRUE, FALSE)

\* with p: the block is left
PoolExit ==
    \E p \in 1..Len(printers) :
        /\ printers[p].in_with
        /\ PoolDid(p, exit(PoolLife(p)), FALSE, FALSE,
                   printers[p].hijacked \/ printers[p].finalized)

\* tqdm.tqdm(...): tqdm's own constructor, or the __new__ of the printer
\* that is installed, for a disabled bar or an enabled one
PoolTqdm ==
    \/ /\ tqdm_new = "tqdm"
       /\ UNCHANGED vars
    \/ \E p \in 1..Len(printers) :
          /\ tqdm_new = PrinterNames[p]
          /\ \/ PoolDid(p, tqdm_call(PoolLife(p), FALSE, TRUE),
                        printers[p].in_with, printers[p].hijacked,
                        printers[p].finalized)
             \/ /\ printers[p].task_index < MaxBars
                /\ \E explicit_total \in BOOLEAN :
                      PoolDid(p, tqdm_call(PoolLife(p), explicit_total, FALSE),
                              printers[p].in_with, printers[p].hijacked,
                              printers[p].finalized)

PoolNext ==
    \/ PoolConstruct
    \/ PoolHijack
    \/ PoolFinalize
    \/ PoolEnter
    \/ PoolExit
    \/ PoolTqdm

PoolSpec == LifeInit /\ [][PoolNext]_vars

\* Some printer has hijacked tqdm, and every printer that has was finalized
\* since.
Settled ==
    /\ \E p \in 1..Len(printers) : printers[p].finalized
    /\ \A p \in 1..Len(printers) : ~printers[p].hijacked

\* C26: once every printer that hijacked tqdm has been finalized,
\* tqdm.tqdm.__new__ is tqdm's own constructor, the one installed before the
\* first hijack_tqdm, and a tqdm construction touches no printer.
HijacksUndone ==
    /\ [](Settled => tqdm_new = "tqdm")
    /\ [][(PoolTqdm /\ Settled) => printers' = printers]_vars

====
